---- MODULE Spec2Model ----
(***************************************************************************)
(* Model of the hello-halo2 circuit (src/main.rs): the chip operations of  *)
(* MyChip, the instruction sequence of MyCircuit::synthesize laid out by   *)
(* the SimpleFloorPlanner, and the keygen / create_proof / verify_proof    *)
(* sequence of main.  The field Fp is modelled by the integers modulo P.   *)
(***************************************************************************)
EXTENDS Integers, Naturals, Sequences, FiniteSets, TLC

\* ---------------------------------------------------------------- bounds
\* Size of the modelled field (Fp of the pasta curves is a ~255 bit prime).
P == 7

\* ------------------------------------------------------------- constants
\* Params::new(4): the circuit has 2^K rows.
K == 4
\* Fp::from(5), Fp::from(35), Fp::from(3), Fp::from(4) before reduction.
FIVE == 5
THIRTYFIVE == 35
THREE == 3
FOUR == 4

F == 0 .. (P - 1)
N == 2 ^ K
Rows == 0 .. (N - 1)

\* Option<Fp>::None, and the content of an advice cell nobody assigned.
None == -1
Unassigned == -2
OptF == F \cup {None}

FpFrom(n) == n % P
FAdd(a, b) == (a + b) % P
FMul(a, b) == (a * b) % P
FSub(a, b) == (a + P - b) % P

\* x^3 + x + 5 computed directly in the field (the comment at the top of
\* main.rs), independently of the circuit.
Cubic(x) == (x * x * x + x + FIVE) % P

\* Cells nobody assigned are zero in the committed advice polynomial.
CellVal(v) == IF v < 0 THEN 0 ELSE v

\* ------------------------------------------------------------ cell handles
AdviceCell(col, row) == <<"advice", col, row>>
FixedCell(row) == <<"fixed", 0, row>>
InstanceCell(row) == <<"instance", 0, row>>

\* AssignedCell<Fp, Fp>: the value seen by the caller and the cell.
NoCell == [value |-> None, cell |-> AdviceCell(0, N)]

AdviceCells == (0 .. 1) \X Rows
RegionColumns == {"a0", "a1", "s_mul", "s_add"}

Max(S) == CHOOSE m \in S : \A n \in S : n <= m

\* A layouter over a fresh backend; mode is "keygen" (value closures are
\* never evaluated) or "prover" (they are).
NewLayouter(mode) ==
  [mode      |-> mode,
   advice    |-> [c \in AdviceCells |-> Unassigned],
   nAssign   |-> [c \in AdviceCells |-> 0],
   s_mul     |-> {},
   s_add     |-> {},
   copies    |-> {},
   constants |-> <<>>,
   fixed     |-> <<>>,
   colNext   |-> [c \in RegionColumns |-> 0],
   regions   |-> <<>>]

\* OpenRegion placing every region at row 0.
OpenRegionAtZero(L, name, cols, nrows) ==
  [start |-> 0,
   L |-> [L EXCEPT
            !.colNext = [c \in RegionColumns |->
                           IF c \in cols THEN nrows ELSE @[c]],
            !.regions = Append(@, [name |-> name, start |-> 0,
                                   rows |-> nrows])]]

\* layouter.assign_region: the region starts at the first row that is free
\* in every column the region uses and reserves nrows rows in them.
OpenRegion(L, name, cols, nrows) ==
  LET start == Max({L.colNext[c] : c \in cols})
  IN [start |-> start,
      L |-> [L EXCEPT
               !.colNext = [c \in RegionColumns |->
                              IF c \in cols THEN start + nrows ELSE @[c]],
               !.regions = Append(@, [name |-> name, start |-> start,
                                      rows |-> nrows])]]

\* assign_advice with v.unwrap_or_default() as the value closure.
AssignAdviceOrDefault(L, col, row, v) ==
  [L |-> [L EXCEPT
            !.advice[<<col, row>>] =
               IF L.mode = "prover" THEN CellVal(v) ELSE None,
            !.nAssign[<<col, row>>] = @ + 1],
   out |-> [value |-> IF L.mode = "prover" THEN CellVal(v) ELSE None,
            cell |-> AdviceCell(col, row)],
   err |-> "ok"]

\* region.assign_advice(.., column, offset, || v.ok_or(Error::Synthesis)):
\* the prover evaluates the closure, key generation does not.
AssignAdvice(L, col, row, v) ==
  IF L.mode = "prover" /\ v = None
  THEN [L |-> L, out |-> NoCell, err |-> "Synthesis"]
  ELSE [L |-> [L EXCEPT
                 !.advice[<<col, row>>] = IF L.mode = "prover" THEN v ELSE None,
                 !.nAssign[<<col, row>>] = @ + 1],
        out |-> [value |-> IF L.mode = "prover" THEN v ELSE None,
                 cell |-> AdviceCell(col, row)],
        err |-> "ok"]

\* a.copy_advice(.., region, column, offset): assign the value of a, then
\* constrain the new cell equal to a's cell.
CopyAdvice(L, a, col, row) ==
  LET A == AssignAdvice(L, col, row, a.value)
  IN IF A.err # "ok" THEN A
     ELSE [A EXCEPT !.L.copies = @ \cup {<<AdviceCell(col, row), a.cell>>}]

\* selector.enable(region, offset)
EnableSelector(L, sel, row) ==
  IF sel = "s_mul" THEN [L EXCEPT !.s_mul = @ \cup {row}]
  ELSE [L EXCEPT !.s_add = @ \cup {row}]

\* -------------------------------------------------------- chip operations
\* Each returns [L: the layouter afterwards, out: the AssignedCell,
\* err: "ok" or the Error returned].

\* MyChip::load_private
load_private(L, v) ==
  LET R == OpenRegion(L, "load private", {"a0"}, 1)
  IN AssignAdvice(R.L, 0, R.start + 0, v)

\* load_constant through plain assign_advice: nothing queued for the fixed
\* column.
load_constant_unbound(L, v) ==
  LET R == OpenRegion(L, "load constant", {"a0"}, 1)
  IN AssignAdvice(R.L, 0, R.start + 0, v)

\* MyChip::load_constant: assign_advice_from_constant assigns v and queues
\* the (constant, cell) pair for the floor planner.
load_constant(L, v) ==
  LET R == OpenRegion(L, "load constant", {"a0"}, 1)
      A == AssignAdvice(R.L, 0, R.start + 0, v)
  IN IF A.err # "ok" THEN A
     ELSE [A EXCEPT !.L.constants = Append(@, <<v, A.out.cell>>)]

\* mul assigning the sum of its operands.
mul_sum(L, a, b) ==
  LET R  == OpenRegion(L, "mul", {"s_mul", "a0", "a1"}, 2)
      S  == EnableSelector(R.L, "s_mul", R.start + 0)
      CA == CopyAdvice(S, a, 0, R.start + 0)
      CB == CopyAdvice(CA.L, b, 1, R.start + 0)
      v  == IF a.value # None /\ b.value # None
            THEN FAdd(a.value, b.value) ELSE None
  IN IF CA.err # "ok" THEN CA
     ELSE IF CB.err # "ok" THEN CB
     ELSE AssignAdvice(CB.L, 0, R.start + 1, v)

\* MyChip::mul
mul(L, a, b) ==
  LET R  == OpenRegion(L, "mul", {"s_mul", "a0", "a1"}, 2)
      S  == EnableSelector(R.L, "s_mul", R.start + 0)
      CA == CopyAdvice(S, a, 0, R.start + 0)
      CB == CopyAdvice(CA.L, b, 1, R.start + 0)
      v  == IF a.value # None /\ b.value # None
            THEN FMul(a.value, b.value) ELSE None
  IN IF CA.err # "ok" THEN CA
     ELSE IF CB.err # "ok" THEN CB
     ELSE AssignAdvice(CB.L, 0, R.start + 1, v)

\* add enabling s_mul next to s_add on its row.
add_both_selectors(L, a, b) ==
  LET R  == OpenRegion(L, "add", {"s_add", "a0", "a1"}, 2)
      S  == EnableSelector(EnableSelector(R.L, "s_mul", R.start + 0),
                           "s_add", R.start + 0)
      CA == CopyAdvice(S, a, 0, R.start + 0)
      CB == CopyAdvice(CA.L, b, 1, R.start + 0)
      v  == IF a.value # None /\ b.value # None
            THEN FAdd(a.value, b.value) ELSE None
  IN IF CA.err # "ok" THEN CA
     ELSE IF CB.err # "ok" THEN CB
     ELSE AssignAdvice(CB.L, 0, R.start + 1, v)

\* MyChip::add
add(L, a, b) ==
  LET R  == OpenRegion(L, "add", {"s_add", "a0", "a1"}, 2)
      S  == EnableSelector(R.L, "s_add", R.start + 0)
      CA == CopyAdvice(S, a, 0, R.start + 0)
      CB == CopyAdvice(CA.L, b, 1, R.start + 0)
      v  == IF a.value # None /\ b.value # None
            THEN FAdd(a.value, b.value) ELSE None
  IN IF CA.err # "ok" THEN CA
     ELSE IF CB.err # "ok" THEN CB
     ELSE AssignAdvice(CB.L, 0, R.start + 1, v)

\* expose_public declaring no constraint.
expose_public_noop(L, num, row) ==
  [L |-> L, out |-> NoCell, err |-> "ok"]

\* MyChip::expose_public: layouter.constrain_instance(num.cell(), instance, row)
expose_public(L, num, row) ==
  [L |-> [L EXCEPT !.copies = @ \cup {<<num.cell, InstanceCell(row)>>}],
   out |-> NoCell, err |-> "ok"]

\* SimpleFloorPlanner, after circuit.synthesize returned Ok: every queued
\* constant gets the next row of the fixed column enabled by
\* meta.enable_constant and is constrained equal to its advice cell.
RECURSIVE AssignConstants(_)
AssignConstants(L) ==
  IF L.constants = <<>> THEN L
  ELSE LET c == Head(L.constants)
       IN AssignConstants(
            [L EXCEPT !.constants = Tail(@),
                      !.fixed = Append(@, c[1]),
                      !.copies = @ \cup {<<FixedCell(Len(L.fixed)), c[2]>>}])

\* ---------------------------------------------------------------- the gate
\* The gate with the multiplication polynomial not multiplied by s_mul.
GateUnselected(s_mul, s_add, lhs, rhs, out) ==
  << FSub(FMul(lhs, rhs), out),
     FMul(s_add, FSub(FAdd(lhs, rhs), out)) >>

\* The two polynomials of gate "mul/add" for one row, from the selector
\* values and the three queried advice values.
Gate(s_mul, s_add, lhs, rhs, out) ==
  << FMul(s_mul, FSub(FMul(lhs, rhs), out)),
     FMul(s_add, FSub(FAdd(lhs, rhs), out)) >>

Bit(b) == IF b THEN 1 ELSE 0

\* The advice values the gate queries on row r: advice[0] at Rotation::cur,
\* advice[1] at Rotation::cur, advice[0] at Rotation::next.
Queries(adv, r) ==
  << CellVal(adv[<<0, r>>]), CellVal(adv[<<1, r>>]),
     CellVal(adv[<<0, (r + 1) % N>>]) >>

\* The gate on row r under the selectors of a layout, for queried values q.
GateRow(S, r, q) ==
  Gate(Bit(r \in S.s_mul), Bit(r \in S.s_add), q[1], q[2], q[3])

GateAt(S, adv, r) == GateRow(S, r, Queries(adv, r))

\* The value a cell of the layout carries, given the advice grid and the
\* instance column (one public input, at row 0).
ValueOf(S, adv, pub, c) ==
  IF c[1] = "advice" THEN CellVal(adv[<<c[2], c[3]>>])
  ELSE IF c[1] = "fixed" THEN S.fixed[c[3] + 1]
  ELSE pub

GatesHold(S, adv) == \A r \in Rows : GateAt(S, adv, r) = <<0, 0>>

CopiesHold(S, adv, pub) ==
  \A e \in S.copies : ValueOf(S, adv, pub, e[1]) = ValueOf(S, adv, pub, e[2])

\* What the backend keeps of a layout apart from the witness: regions,
\* selectors, equality constraints and the fixed column.
Shape(L) ==
  [regions |-> L.regions, s_mul |-> L.s_mul, s_add |-> L.s_add,
   copies |-> L.copies, fixed |-> L.fixed]

\* verify_proof(params, vk, .., [[[result]]], proof).is_ok(): the committed
\* advice satisfies every gate and every equality constraint of the
\* verifying key against the public input.
Verify(key, adv, pub) == GatesHold(key, adv) /\ CopiesHold(key, adv, pub)

\* Circuit::without_witnesses: Self::default()
without_witnesses(c) == [constant |-> 0, x |-> None]

\* ------------------------------------------------------------------- state
VARIABLES
  circuit,    \* MyCircuit {constant, x}
  result,     \* the public input handed to create_proof and verify_proof
  structOnly, \* key generation is run on circuit.without_witnesses()
  phase,      \* where main is
  pc,         \* the next chip call of synthesize, Returned or Failed
  layouter,   \* the layout built by the running synthesize
  cells,      \* the AssignedCells bound by synthesize so far
  err,        \* the Error of the failed chip call, or "ok"
  vk,         \* the shape fixed by keygen_vk
  proof,      \* the advice committed by create_proof
  verified    \* "none", "ok" or "failed"

vars == <<circuit, result, structOnly, phase, pc, layouter, cells, err, vk,
          proof, verified>>

Returned == 8
Failed == -1

NoCells == [x |-> NoCell, constant |-> NoCell, x_2 |-> NoCell,
            x_3 |-> NoCell, x_3_x |-> NoCell, x_3_x_5 |-> NoCell]

\* The circuit a pass synthesizes.
PassCircuit ==
  IF structOnly /\ phase \in {"keygen_vk", "keygen_pk"}
  THEN without_witnesses(circuit) ELSE circuit

\* A chip call whose error is dropped.
NextPcIgnoreErr(p, e) == p + 1

\* The `?` after a chip call: go on, or return the error.
NextPc(p, e) == IF e = "ok" THEN p + 1 ELSE Failed

\* One statement `let name = chip.op(..)?;` of synthesize.
Bind(r, name) ==
  /\ layouter' = r.L
  /\ err' = r.err
  /\ pc' = NextPc(pc, r.err)
  /\ cells' = IF r.err = "ok" THEN [cells EXCEPT ![name] = r.out] ELSE cells
  /\ UNCHANGED <<circuit, result, structOnly, phase, vk, proof, verified>>

Synthesizing == phase \in {"keygen_vk", "keygen_pk", "create_proof"}

\* synthesize exposing the intermediate sum.
ExposedIntermediate(cs) == cs.x_3_x

\* The cell synthesize hands to expose_public.
Exposed(cs) == cs.x_3_x_5

InitMain(so) ==
  /\ circuit \in [constant : {FpFrom(FIVE)}, x : OptF]
  /\ result \in F
  /\ structOnly = so
  /\ phase = "keygen_vk"
  /\ pc = 0
  /\ layouter = NewLayouter("keygen")
  /\ cells = NoCells
  /\ err = "ok"
  /\ vk = Shape(NewLayouter("keygen"))
  /\ proof = NewLayouter("prover").advice
  /\ verified = "none"

\* main: keygen and proving on the circuit itself.
Init == InitMain(FALSE)

\* ----------------------------------------------------- MyCircuit::synthesize
SynthLoadPrivate ==
  /\ Synthesizing /\ pc = 0
  /\ Bind(load_private(layouter, PassCircuit.x), "x")

SynthLoadConstant ==
  /\ Synthesizing /\ pc = 1
  /\ Bind(load_constant(layouter, PassCircuit.constant), "constant")

SynthMulX2 ==
  /\ Synthesizing /\ pc = 2
  /\ Bind(mul(layouter, cells.x, cells.x), "x_2")

SynthMulX3 ==
  /\ Synthesizing /\ pc = 3
  /\ Bind(mul(layouter, cells.x_2, cells.x), "x_3")

SynthAddX3X ==
  /\ Synthesizing /\ pc = 4
  /\ Bind(add(layouter, cells.x_3, cells.x), "x_3_x")

SynthAddX3X5 ==
  /\ Synthesizing /\ pc = 5
  /\ Bind(add(layouter, cells.x_3_x, cells.constant), "x_3_x_5")

SynthExposePublic ==
  /\ Synthesizing /\ pc = 6
  /\ LET r == expose_public(layouter, Exposed(cells), 0)
     IN /\ layouter' = r.L
        /\ err' = r.err
        /\ pc' = NextPc(pc, r.err)
  /\ UNCHANGED <<circuit, result, structOnly, phase, cells, vk, proof,
                 verified>>

\* synthesize returned Ok(()): the floor planner assigns the constants.
FloorPlannerFinish ==
  /\ Synthesizing /\ pc = 7
  /\ layouter' = AssignConstants(layouter)
  /\ pc' = Returned
  /\ UNCHANGED <<circuit, result, structOnly, phase, cells, err, vk, proof,
                 verified>>

\* ----------------------------------------------------------------- main
\* keygen_vk(&params, &circuit).unwrap()
KeygenVk ==
  /\ phase = "keygen_vk" /\ pc = Returned
  /\ vk' = Shape(layouter)
  /\ phase' = "keygen_pk"
  /\ pc' = 0
  /\ layouter' = NewLayouter("keygen")
  /\ cells' = NoCells
  /\ UNCHANGED <<circuit, result, structOnly, err, proof, verified>>

\* keygen_pk(&params, vk, &circuit).unwrap()
KeygenPk ==
  /\ phase = "keygen_pk" /\ pc = Returned
  /\ phase' = "create_proof"
  /\ pc' = 0
  /\ layouter' = NewLayouter("prover")
  /\ cells' = NoCells
  /\ UNCHANGED <<circuit, result, structOnly, err, vk, proof, verified>>

\* create_proof(..).unwrap(); transcript.finalize()
CreateProof ==
  /\ phase = "create_proof" /\ pc = Returned
  /\ proof' = layouter.advice
  /\ phase' = "verify"
  /\ UNCHANGED <<circuit, result, structOnly, pc, layouter, cells, err, vk,
                 verified>>

\* assert!(verify_proof(..).is_ok())
VerifyProof ==
  /\ phase = "verify"
  /\ verified' = IF Verify(vk, proof, result) THEN "ok" ELSE "failed"
  /\ phase' = IF Verify(vk, proof, result) THEN "done" ELSE "panic"
  /\ UNCHANGED <<circuit, result, structOnly, pc, layouter, cells, err, vk,
                 proof>>

\* .unwrap() on the Err of a failed synthesize
Unwrap ==
  /\ Synthesizing /\ pc = Failed
  /\ phase' = "panic"
  /\ UNCHANGED <<circuit, result, structOnly, pc, layouter, cells, err, vk,
                 proof, verified>>

Next ==
  \/ SynthLoadPrivate
  \/ SynthLoadConstant
  \/ SynthMulX2
  \/ SynthMulX3
  \/ SynthAddX3X
  \/ SynthAddX3X5
  \/ SynthExposePublic
  \/ FloorPlannerFinish
  \/ KeygenVk
  \/ KeygenPk
  \/ CreateProof
  \/ VerifyProof
  \/ Unwrap

Spec == Init /\ [][Next]_vars

\* The same run with the keys generated from the structure-only circuit.
InitShape == InitMain(TRUE)

SpecShape == InitShape /\ [][Next]_vars

\* ------------------------------------------- the chip operations on their own
\* A layouter in which two operands a and b were assigned earlier, in
\* regions of their own at rows 0 and 1 of advice[0].
Operands(mode, va, vb) ==
  LET RA == OpenRegion(NewLayouter(mode), "operand a", {"a0"}, 1)
      RB == OpenRegion(RA.L, "operand b", {"a0"}, 1)
  IN [RB.L EXCEPT
        !.advice[<<0, 0>>] = IF mode = "prover" THEN va ELSE None,
        !.advice[<<0, 1>>] = IF mode = "prover" THEN vb ELSE None,
        !.nAssign[<<0, 0>>] = 1,
        !.nAssign[<<0, 1>>] = 1]

\* Any two operands, absent or present, in either context.
InitChip ==
  /\ circuit = [constant |-> FpFrom(FIVE), x |-> None]
  /\ result = 0
  /\ structOnly = FALSE
  /\ phase = "chip"
  /\ pc = 0
  /\ \E mode \in {"keygen", "prover"}, va \in OptF, vb \in OptF :
       /\ layouter = Operands(mode, va, vb)
       /\ cells = [NoCells EXCEPT
                     !.x = [value |-> IF mode = "prover" THEN va ELSE None,
                            cell |-> AdviceCell(0, 0)],
                     !.constant = [value |-> IF mode = "prover" THEN vb
                                             ELSE None,
                                   cell |-> AdviceCell(0, 1)]]
  /\ err = "ok"
  /\ vk = Shape(NewLayouter("keygen"))
  /\ proof = NewLayouter("prover").advice
  /\ verified = "none"

\* One chip call `chip.op(..)?` on the operands.
Call(r, op) ==
  /\ phase = "chip"
  /\ layouter' = r.L
  /\ err' = r.err
  /\ pc' = NextPc(pc, r.err)
  /\ cells' = IF r.err = "ok" THEN [cells EXCEPT !.x_3_x_5 = r.out]
              ELSE cells
  /\ phase' = op
  /\ UNCHANGED <<circuit, result, structOnly, vk, proof, verified>>

ChipLoadPrivate == Call(load_private(layouter, cells.x.value), "load_private")

ChipMul == Call(mul(layouter, cells.x, cells.constant), "mul")

ChipAdd == Call(add(layouter, cells.x, cells.constant), "add")

NextChip ==
  \/ ChipLoadPrivate
  \/ ChipMul
  \/ ChipAdd

SpecChip == InitChip /\ [][NextChip]_vars

\* ----------------------------------------------------------- properties
ProverPassDone == phase \in {"create_proof", "verify", "done", "panic"}
                  /\ pc = Returned

RegionRows(r) == r.start .. (r.start + r.rows - 1)

\* The instance constraints of a set of equality constraints.
InstanceEdges(cp) == {e \in cp : e[2][1] = "instance"}

\* C1 (soundness): whenever verify_proof has run, a public input different
\* from x^3 + x + 5 was rejected; x = 3 with result 35 is accepted and
\* x = 4 with result 35 is rejected.
C1_Soundness ==
  verified # "none" =>
    /\ result # Cubic(circuit.x) => verified = "failed"
    /\ (circuit.x = FpFrom(THREE) /\ result = FpFrom(THIRTYFIVE))
         => verified = "ok"
    /\ (circuit.x = FpFrom(FOUR) /\ result = FpFrom(THIRTYFIVE))
         => verified = "failed"

C1_Witness ==
  /\ verified = "failed"
  /\ circuit.x = FpFrom(FOUR)
  /\ result = FpFrom(THIRTYFIVE)

\* C2 (completeness): with x present and result = x^3 + x + 5 the prover's
\* pass never fails, and once it has returned the cell of the last add
\* holds x^3 + x + 5, both gate polynomials are zero on every row and every
\* equality constraint, the one with instance row 0 included, holds.
C2_Completeness ==
  (/\ phase \in {"create_proof", "verify", "done", "panic"}
   /\ circuit.x # None
   /\ result = Cubic(circuit.x)) =>
    /\ pc # Failed
    /\ err = "ok"
    /\ pc = Returned =>
         /\ cells.x_3_x_5.value = Cubic(circuit.x)
         /\ layouter.advice[<<cells.x_3_x_5.cell[2], cells.x_3_x_5.cell[3]>>]
              = Cubic(circuit.x)
         /\ GatesHold(Shape(layouter), layouter.advice)
         /\ CopiesHold(Shape(layouter), layouter.advice, result)
         /\ <<cells.x_3_x_5.cell, InstanceCell(0)>> \in layouter.copies
         /\ ValueOf(Shape(layouter), layouter.advice, result,
                    cells.x_3_x_5.cell) = result

C2_Witness ==
  /\ ProverPassDone
  /\ circuit.x = FpFrom(THREE)
  /\ result = Cubic(circuit.x)
  /\ cells.x_3_x_5.value = FpFrom(THIRTYFIVE)

\* The verifying key with the instance constraint moved to cell c.
ExposeInstead(key, c) ==
  [key EXCEPT !.copies = (@ \ InstanceEdges(@)) \cup {<<c, InstanceCell(0)>>}]

\* C4: once expose_public has run, the only instance constraint binds the
\* output cell of add(x3_plus_x, k) (row 1 of the sixth region) to instance
\* row 0; for x = 3 and result 35 the proof verifies, and it would not
\* verify were the cell of x3_plus_x bound to instance row 0 instead.
C4_ExposeFinal ==
  /\ (Synthesizing /\ pc \in {7, Returned}) \/ phase \in {"verify", "done"} =>
       /\ InstanceEdges(layouter.copies)
            = {<<cells.x_3_x_5.cell, InstanceCell(0)>>}
       /\ cells.x_3_x_5.cell = AdviceCell(0, layouter.regions[6].start + 1)
       /\ layouter.regions[6].name = "add"
       /\ cells.x_3_x_5.cell # cells.x_3_x.cell
  /\ (/\ phase \in {"verify", "done"}
      /\ circuit.x = FpFrom(THREE)
      /\ result = FpFrom(THIRTYFIVE)) =>
       /\ Verify(vk, proof, result)
       /\ ~Verify(ExposeInstead(vk, cells.x_3_x.cell), proof, result)

C4_Witness ==
  /\ phase = "done"
  /\ verified = "ok"
  /\ circuit.x = FpFrom(THREE)
  /\ result = FpFrom(THIRTYFIVE)

NoPartialSuccess ==
  /\ err # "ok" =>
       /\ phase \in {"keygen_vk", "keygen_pk", "create_proof", "panic"}
       /\ pc = Failed
       /\ verified = "none"
       /\ proof = NewLayouter("prover").advice
  /\ (phase \in {"verify", "done"} \/ verified # "none") =>
       /\ err = "ok"
       /\ pc = Returned
       /\ Len(layouter.regions) = 6
       /\ InstanceEdges(layouter.copies) # {}
       /\ layouter.constants = <<>>

\* C6: once a chip call has failed, synthesize is left with that error: the
\* layout and the bound cells never change again, the only step left is the
\* unwrap that ends main, and no proof is made or verified; a proof is only
\* made from a pass that produced all six regions and the instance
\* constraint.
C6_NoPartialSuccess ==
  [][/\ NoPartialSuccess
     /\ NoPartialSuccess'
     /\ err # "ok" =>
          /\ layouter' = layouter
          /\ cells' = cells
          /\ err' = err
          /\ pc' = Failed
          /\ phase' = "panic"]_vars

C6_Witness ==
  /\ phase = "panic"
  /\ err = "Synthesis"
  /\ Len(layouter.regions) = 1
  /\ layouter.copies = {}

\* C7 (gate isolation): on every row of the layout on which neither s_mul
\* nor s_add is enabled both gate polynomials are zero whatever values
\* advice[0] and advice[1] hold on that row and advice[0] on the next row.
C7_GateIsolation ==
  LET S == Shape(layouter)
  IN \A r \in Rows :
       (r \notin layouter.s_mul /\ r \notin layouter.s_add) =>
         \A q \in F \X F \X F : GateRow(S, r, q) = <<0, 0>>

C7_Witness ==
  /\ ProverPassDone
  /\ layouter.s_mul # {} /\ layouter.s_add # {}
  /\ \E r \in Rows :
       /\ r \notin layouter.s_mul /\ r \notin layouter.s_add
       /\ layouter.advice[<<0, r>>] > 0

\* The rhs cell of the final add: advice[1], row 0 of the sixth region.
FinalAddRhs == <<1, layouter.regions[6].start>>

\* C8: after a pass, the cell of load_constant is advice[0] row 0 of the
\* region "load constant", holds the constant in the prover's pass, and is
\* constrained equal to a fixed-column cell holding the circuit's constant;
\* whatever values the prover puts into that cell and into the constant
\* operand of the final add, the equality constraints only hold if the
\* operand equals the circuit's constant.
C8_ConstantBound ==
  (Synthesizing /\ pc = Returned) =>
    /\ layouter.regions[2].name = "load constant"
    /\ cells.constant.cell = AdviceCell(0, layouter.regions[2].start)
    /\ layouter.mode = "prover" =>
         layouter.advice[<<0, layouter.regions[2].start>>]
           = PassCircuit.constant
    /\ \E f \in 1 .. Len(layouter.fixed) :
         /\ layouter.fixed[f] = PassCircuit.constant
         /\ <<FixedCell(f - 1), cells.constant.cell>> \in layouter.copies
    /\ <<AdviceCell(1, layouter.regions[6].start), cells.constant.cell>>
         \in layouter.copies
    /\ \A kv, rv \in F :
         CopiesHold(Shape(layouter),
                    [layouter.advice EXCEPT
                       ![<<0, layouter.regions[2].start>>] = kv,
                       ![FinalAddRhs] = rv],
                    result)
           => rv = PassCircuit.constant

C8_Witness ==
  /\ phase = "create_proof" /\ pc = Returned
  /\ layouter.fixed = <<FpFrom(FIVE)>>
  /\ layouter.advice[FinalAddRhs] = FpFrom(FIVE)
  /\ CopiesHold(Shape(layouter), layouter.advice, result)

RegionsDisjoint(L) ==
  \A i, j \in 1 .. Len(L.regions) :
    i # j => RegionRows(L.regions[i]) \cap RegionRows(L.regions[j]) = {}

CellsInRegions(L) ==
  \A c \in AdviceCells :
    /\ L.nAssign[c] <= 1
    /\ (L.nAssign[c] = 0) = (L.advice[c] = Unassigned)
    /\ L.nAssign[c] = 1 => \E i \in 1 .. Len(L.regions) :
                              c[2] \in RegionRows(L.regions[i])

\* An equality constraint between advice cells links a cell to a cell of an
\* earlier region.
CopiesAcrossRegions(L) ==
  \A e \in L.copies :
    (e[1][1] = "advice" /\ e[2][1] = "advice") => e[2][3] < e[1][3]

\* C9: at every point of a pass the regions occupy pairwise disjoint row
\* ranges, every advice cell is assigned at most once, inside a region, and
\* within a pass an assigned cell never changes.
C9_WriteOnce ==
  [][/\ RegionsDisjoint(layouter) /\ RegionsDisjoint(layouter')
     /\ CellsInRegions(layouter) /\ CellsInRegions(layouter')
     /\ CopiesAcrossRegions(layouter) /\ CopiesAcrossRegions(layouter')
     /\ phase' = phase =>
          \A c \in AdviceCells :
            layouter.advice[c] # Unassigned
              => layouter'.advice[c] = layouter.advice[c]]_vars

C9_Witness ==
  /\ ProverPassDone
  /\ Len(layouter.regions) = 6
  /\ Cardinality({c \in AdviceCells : layouter.nAssign[c] = 1}) = 14

\* The single summed constraint of the specification.
SummedGate(s_mul, s_add, lhs, rhs, out) ==
  FAdd(FMul(s_mul, FSub(FMul(lhs, rhs), out)),
       FMul(s_add, FSub(FAdd(lhs, rhs), out)))

\* C10: no row has both selectors enabled; a finished layout has s_mul on
\* row 0 of the two mul regions and s_add on row 0 of the two add regions
\* and nowhere else; and on every row the two gate polynomials are both
\* zero exactly when the summed constraint is zero, for all advice values.
C10_GateEquivalence ==
  /\ layouter.s_mul \cap layouter.s_add = {}
  /\ (Synthesizing /\ pc \in {6, 7, Returned}) =>
       /\ layouter.s_mul = {layouter.regions[i].start : i \in {3, 4}}
       /\ layouter.s_add = {layouter.regions[i].start : i \in {5, 6}}
       /\ Cardinality(layouter.s_mul) = 2
       /\ Cardinality(layouter.s_add) = 2
  /\ LET S == Shape(layouter)
     IN \A r \in Rows : \A q \in F \X F \X F :
          (GateRow(S, r, q) = <<0, 0>>)
          <=> (SummedGate(Bit(r \in S.s_mul), Bit(r \in S.s_add),
                          q[1], q[2], q[3]) = 0)

C10_Witness ==
  /\ ProverPassDone
  /\ Cardinality(layouter.s_mul) = 2
  /\ Cardinality(layouter.s_add) = 2
  /\ \E r \in layouter.s_add :
       Gate(0, 1, layouter.advice[<<0, r>>], layouter.advice[<<1, r>>],
            layouter.advice[<<0, r + 1>>]) = <<0, 0>>

\* The value a chip call has to produce from the operands, None if one it
\* needs is absent.
Expected(op, a, b) ==
  IF op = "load_private" THEN a
  ELSE IF a = None \/ b = None THEN None
  ELSE IF op = "mul" THEN (a * b) % P
  ELSE (a + b) % P

\* The cell a chip call on the two operands assigns its result to.
OutCell(op) == IF op = "load_private" THEN <<0, 2>> ELSE <<0, 3>>

\* C5: in prover context load_private of an absent value and mul or add
\* with an absent operand return Error::Synthesis and leave the output cell
\* unassigned; with the values present they return Ok and the output cell
\* holds the value, the product or the sum.
C5_SynthesisError ==
  (phase \in {"load_private", "mul", "add"} /\ layouter.mode = "prover") =>
    LET e == Expected(phase, cells.x.value, cells.constant.value)
    IN /\ e = None =>
            /\ err = "Synthesis"
            /\ pc = Failed
            /\ cells.x_3_x_5 = NoCell
            /\ layouter.advice[OutCell(phase)] = Unassigned
       /\ e # None =>
            /\ err = "ok"
            /\ pc # Failed
            /\ cells.x_3_x_5.value = e
            /\ layouter.advice[OutCell(phase)] = e

C5_Witness ==
  /\ phase = "mul"
  /\ layouter.mode = "prover"
  /\ cells.x.value # None
  /\ cells.constant.value = None
  /\ err = "Synthesis"

\* C3: the pass over circuit.without_witnesses() and the prover's pass over
\* the circuit give the same regions, selectors, equality constraints and
\* fixed column; the cells of the structure-only pass carry no value.
C3_SameShape ==
  /\ (phase \in {"keygen_vk", "keygen_pk"} /\ pc = Returned) =>
       /\ err = "ok"
       /\ \A n \in DOMAIN cells : cells[n].value = None
       /\ \A c \in AdviceCells : layouter.advice[c] \in {None, Unassigned}
  /\ (phase = "create_proof" /\ pc = Returned) => Shape(layouter) = vk

====
